---- MODULE Spec2Model ----
(***************************************************************************)
(* Depth-ordered layout compositor of LostGANs.                            *)
(*                                                                         *)
(* Two programs use a cached depth map:                                    *)
(*   compute_depth.py  (__main__): per image, load the depth map, flip it, *)
(*       scale the boxes, crop, mean, normalize, sort, paint.              *)
(*   train_depth.py    (main, depth visualisation loop): per sample of the *)
(*       batch, load the depth map, resize, flip, get_depth_layout.        *)
(*                                                                         *)
(* Three more functions are modelled, each under a specification of its   *)
(* own: depth_estimation (compute_depth.py), which writes the cached depth *)
(* maps; sample_test (test.py), which saves the generated images; and      *)
(* get_dataset (data/datasets.py), which builds the dataset of a mode.     *)
(*                                                                         *)
(* Tensors are records [shape |-> <<d1, ..., dn>>, at |-> f] where f maps  *)
(* every 0-based index tuple to the element.  Real numbers are exact       *)
(* fractions <<n, d>> in lowest terms (d > 0); NaN is <<0, 0>> and, as in  *)
(* IEEE arithmetic, compares false with everything and absorbs every       *)
(* arithmetic operation.                                                   *)
(***************************************************************************)
EXTENDS Integers, Sequences, FiniteSets, TLC

VARIABLES
    prog,           \* the program that runs: "compute_depth" or "train_depth"
    pc,             \* its position
    err,            \* the exception that ended it, "none" while there is none
    config,         \* the configuration values the program has set
    data,           \* train_depth: the samples of the batch
    index,          \* the loop index (index in compute_depth, jdx in train_depth)
    sample,         \* the sample of this turn of the loop
    loaded,         \* the depth map as loaded (and resized), before the flip
    depthmap, size_boxes, coord_boxes, crops,
    raw_depths,     \* depths before normalize_tensor
    depths, boxes_depths, depth_layout,
    painted,        \* the (i, d) of boxes_depths painted so far, in order
    depth_results,
    image, o_image, \* depth_estimation: the image at hand and its clone
    prediction,
    written,        \* depth_estimation: the .npy files written, by filename
    lpips_samples, fake_images, fake_images_alt,
    saved,          \* sample_test: the images imsave has written, by path
    env             \* get_dataset: its arguments and the locals bound so far

\* the variables of the depth-layout loops of compute_depth.py and train_depth.py
layoutvars == <<data, loaded, depthmap, size_boxes, coord_boxes, crops,
                raw_depths, depths, boxes_depths, depth_layout, painted,
                depth_results>>

\* the variables of depth_estimation, of sample_test and of get_dataset
estvars == <<image, o_image, prediction, written>>
testvars == <<lpips_samples, fake_images, fake_images_alt, saved>>
dsvars == <<env>>

vars == <<prog, pc, err, config, data, index, sample, loaded, depthmap,
          size_boxes, coord_boxes, crops, raw_depths, depths, boxes_depths,
          depth_layout, painted, depth_results, image, o_image, prediction,
          written, lpips_samples, fake_images, fake_images_alt, saved, env>>

---------------------------------------------------------------------------
\* Bounds of the model.

\* image (and depth map) height and width in pixels
ImgH == 2
ImgW == 3
\* normalized box coordinates are multiples of 1/NormDen
NormDen == 6
\* object slots of a layout (num_obj)
MaxObj == 2
\* depth map values are 0..MaxDepthVal
MaxDepthVal == 2
\* samples visualised per training batch (disp_depth, at most 6)
DispDepth == 2

\* compute_depth.py: limit = 1
limit == 1

---------------------------------------------------------------------------
\* Exact fractions.

NaN == <<0, 0>>
IsNaN(q) == q[2] = 0

RECURSIVE GCD(_, _)
GCD(a, b) == IF b = 0 THEN a ELSE GCD(b, a % b)

Abs(n) == IF n < 0 THEN -n ELSE n

\* n/d in lowest terms with a positive denominator; x/0 is NaN
Q(n, d) ==
    IF d = 0 THEN NaN
    ELSE LET g == GCD(Abs(n), Abs(d))
             s == IF d < 0 THEN -1 ELSE 1
         IN  <<(s * n) \div g, (s * d) \div g>>

Zero == Q(0, 1)
Half == Q(1, 2)

QLt(a, b) == ~IsNaN(a) /\ ~IsNaN(b) /\ a[1] * b[2] < b[1] * a[2]
QEq(a, b) == ~IsNaN(a) /\ ~IsNaN(b) /\ a[1] * b[2] = b[1] * a[2]
QSub(a, b) == IF IsNaN(a) \/ IsNaN(b) THEN NaN
              ELSE Q(a[1] * b[2] - b[1] * a[2], a[2] * b[2])
QDiv(a, b) == IF IsNaN(a) \/ IsNaN(b) THEN NaN
              ELSE Q(a[1] * b[2], a[2] * b[1])

Min2(a, b) == IF a < b THEN a ELSE b
Max2(a, b) == IF a > b THEN a ELSE b

---------------------------------------------------------------------------
\* Tensors.

NoTensor == [shape |-> <<>>, at |-> <<>>]

Indices(shape) ==
    IF Len(shape) = 2
    THEN (0 .. shape[1] - 1) \X (0 .. shape[2] - 1)
    ELSE (0 .. shape[1] - 1) \X (0 .. shape[2] - 1) \X (0 .. shape[3] - 1)

\* torch.zeros(shape)
Zeros(shape) == [shape |-> shape, at |-> [ix \in Indices(shape) |-> Zero]]

\* torch.fliplr(t): reverses dimension 1 of a tensor of at least 2 dimensions
Fliplr(t) ==
    [shape |-> t.shape,
     at |-> [ix \in Indices(t.shape) |->
               t.at[[ix EXCEPT ![2] = t.shape[2] - 1 - ix[2]]]]]

\* t.unsqueeze(0)
Unsqueeze0(t) ==
    [shape |-> <<1>> \o t.shape,
     at |-> [ix \in Indices(<<1>> \o t.shape) |-> t.at[<<ix[2], ix[3]>>]]]

\* Resize(size)(t) of a (1, H, W) tensor, sampling the nearest source pixel
Resize(t, size) ==
    [shape |-> <<t.shape[1], size[1], size[2]>>,
     at |-> [ix \in Indices(<<t.shape[1], size[1], size[2]>>) |->
               t.at[<<ix[1], (ix[2] * t.shape[2]) \div size[1],
                      (ix[3] * t.shape[3]) \div size[2]>>]]]

\* torch.cat((t, t, t), 0) of a (1, H, W) tensor
Cat3(t) ==
    [shape |-> <<3, t.shape[2], t.shape[3]>>,
     at |-> [ix \in Indices(<<3, t.shape[2], t.shape[3]>>) |->
               t.at[<<0, ix[2], ix[3]>>]]]

\* torchvision.transforms.functional.crop(img, top, left, height, width) of a
\* 2-d tensor: the result always has shape (height, width); the part of the
\* window outside the image is padded with 0
Crop(img, top, left, height, width) ==
    [shape |-> <<height, width>>,
     at |-> [ix \in Indices(<<height, width>>) |->
               IF top + ix[1] < img.shape[1] /\ left + ix[2] < img.shape[2]
               THEN img.at[<<top + ix[1], left + ix[2]>>] ELSE 0]]

RECURSIVE SumOver(_, _)
SumOver(f, S) ==
    IF S = {} THEN 0
    ELSE LET x == CHOOSE y \in S : TRUE IN f[x] + SumOver(f, S \ {x})

Numel(t) == Cardinality(Indices(t.shape))

\* crop_.mean(): the mean of an empty tensor is nan
Mean(t) == Q(SumOver(t.at, Indices(t.shape)), Numel(t))

---------------------------------------------------------------------------
\* The dataset (layout source) and the depth map cache.

Background == "background"
Thing == "thing"

\* files of the dataset; only those in Cached have a cached depth map
Filenames == {"a.jpg", "b.jpg", "c.jpg", "z.jpg"}
Cached == {"a.jpg", "b.jpg", "c.jpg"}

\* normalized boxes (x, y, w, h), each value a numerator over NormDen
BoxList ==
    << <<0, 0, 4, 6>>,     \* large box at the top-left corner
       <<2, 3, 2, 3>>,     \* small box inside it
       <<0, 3, 6, 3>>,     \* wide box along the bottom
       <<2, 0, 0, 6>>,     \* zero width
       <<4, 3, 4, 6>>,     \* reaches beyond the right and bottom borders
       <<4, 0, 2, 3>> >>   \* small box at the top-right corner

NormBoxes == { BoxList[k] : k \in DOMAIN BoxList }

\* a layout has MaxObj slots: the first n hold objects, the others padding
Layouts ==
    { [objs |-> [i \in 1 .. MaxObj |-> IF i <= n THEN Thing ELSE Background],
       boxes |-> b] :
        n \in 0 .. MaxObj, b \in [1 .. MaxObj -> NormBoxes] }

\* cached depth maps: 2-d, one value per pixel
DepthMaps ==
    { [shape |-> <<ImgH, ImgW>>,
       at |-> [ix \in Indices(<<ImgH, ImgW>>) |->
                 (a * ix[1] + b * ix[2]) % (MaxDepthVal + 1)]] :
        a \in 0 .. MaxDepthVal, b \in 0 .. MaxDepthVal }

\* a generated image is known by the layout it was generated from and by the
\* noise it was generated with; NoImage is a name not bound yet
NoImage == [layout |-> -1, z |-> ""]

NoSample ==
    [objs |-> <<>>, boxes |-> <<>>, depths |-> <<>>, filename |-> "",
     flip |-> FALSE]

\* what dataset[index] can return (return_filenames=True, no depths)
Samples ==
    { [objs |-> l.objs, boxes |-> l.boxes, depths |-> <<>>, filename |-> f,
       flip |-> fl] :
        l \in Layouts, f \in Filenames, fl \in BOOLEAN }

\* the annotations of the training set: every file has its own layout and
\* per-object depths (return_depth=True)
FileNo(f) ==
    CASE f = "a.jpg" -> 0 [] f = "b.jpg" -> 1 [] f = "c.jpg" -> 2 [] OTHER -> 3

TrainSample(f, fl) ==
    LET o == FileNo(f)
    IN  [objs |-> [i \in 1 .. MaxObj |->
                     IF i = MaxObj /\ o % 2 = 1 THEN Background ELSE Thing],
         boxes |-> [i \in 1 .. MaxObj |->
                      BoxList[((i + o - 1) % Len(BoxList)) + 1]],
         depths |-> [i \in 1 .. MaxObj |-> Q((i * (o + 1)) % (MaxObj + 1), MaxObj)],
         filename |-> f,
         flip |-> fl]

\* the first DispDepth samples of a batch: the files of a batch are distinct
Batches ==
    { b \in [1 .. DispDepth -> { TrainSample(f, fl) : f \in Filenames, fl \in BOOLEAN }] :
        \A i, j \in 1 .. DispDepth : i # j => b[i].filename # b[j].filename }

\* np.load that answers a missing file with a map of zeros
NpLoad_ZeroOnMiss(filename, m) ==
    [raised |-> FALSE,
     value |-> IF filename \in Cached THEN m
               ELSE [shape |-> m.shape, at |-> [ix \in Indices(m.shape) |-> 0]]]

\* np.load(path) of a cached depth map holding m: raises FileNotFoundError
\* when there is no file
NpLoad(filename, m) ==
    IF filename \in Cached
    THEN [raised |-> FALSE, value |-> m]
    ELSE [raised |-> TRUE, value |-> NoTensor]

---------------------------------------------------------------------------
\* Box Coordinate Transformer (utils.util.scale_boxes).

\* n/d rounded to the nearest integer, halves to even (n >= 0, d > 0)
Round(n, d) ==
    LET q == n \div d
        r == n % d
    IN  IF 2 * r < d THEN q
        ELSE IF 2 * r > d THEN q + 1
        ELSE IF q % 2 = 0 THEN q ELSE q + 1

Clamp(v, lo, hi) == Max2(lo, Min2(v, hi))

\* one normalized box to pixels of an image of shape (H, W):
\* 'inverse_size' gives (x, y, width, height), 'coordinates' gives
\* (xmin, ymin, xmax, ymax) with xmax = x + width, ymax = y + height
ScaleBox(box, shape, format) ==
    LET H == shape[1]
        W == shape[2]
        x == Clamp(Round(box[1] * W, NormDen), 0, W)
        y == Clamp(Round(box[2] * H, NormDen), 0, H)
        w == Clamp(Round(box[3] * W, NormDen), 0, W)
        h == Clamp(Round(box[4] * H, NormDen), 0, H)
    IN  IF format = "inverse_size" THEN <<x, y, w, h>>
        ELSE <<x, y, Clamp(x + w, 0, W), Clamp(y + h, 0, H)>>

scale_boxes(boxes, shape, format) ==
    [i \in DOMAIN boxes |-> ScaleBox(boxes[i], shape, format)]

---------------------------------------------------------------------------
\* Depth Value Normalizer (utils.util.normalize_tensor, range (0, 1)).

\* torch min / max: nan if any element is nan
RECURSIVE QMin(_)
QMin(s) ==
    IF Len(s) = 1 THEN s[1]
    ELSE LET m == QMin(Tail(s))
         IN  IF IsNaN(s[1]) \/ IsNaN(m) THEN NaN
             ELSE IF QLt(m, s[1]) THEN m ELSE s[1]

RECURSIVE QMax(_)
QMax(s) ==
    IF Len(s) = 1 THEN s[1]
    ELSE LET m == QMax(Tail(s))
         IN  IF IsNaN(s[1]) \/ IsNaN(m) THEN NaN
             ELSE IF QLt(s[1], m) THEN m ELSE s[1]

\* min-max rescaling with the image's own min and max; a constant when all
\* scalars are equal
normalize_tensor(t) ==
    IF Len(t) = 0 THEN t
    ELSE LET mn == QMin(t)
             mx == QMax(t)
         IN  IF QEq(mn, mx) THEN [i \in DOMAIN t |-> Half]
             ELSE [i \in DOMAIN t |-> QDiv(QSub(t[i], mn), QSub(mx, mn))]

---------------------------------------------------------------------------
\* Depth-Ordered Compositor.

\* [(i, d) for i, d in enumerate(depths)]  (slots count from 1)
Enumerate(ds) == [i \in DOMAIN ds |-> <<i, ds[i]>>]

\* insert e behind every element whose key is not greater than e's
RECURSIVE InsertByDepth(_, _)
InsertByDepth(s, e) ==
    IF s = <<>> THEN <<e>>
    ELSE IF QLt(e[2], s[1][2]) THEN <<e>> \o s
    ELSE <<s[1]>> \o InsertByDepth(Tail(s), e)

RECURSIVE SortFrom(_, _)
SortFrom(done, rest) ==
    IF rest = <<>> THEN done
    ELSE SortFrom(InsertByDepth(done, rest[1]), Tail(rest))

\* sorted(..., reverse=True)
RECURSIVE InsertByDepthDescending(_, _)
InsertByDepthDescending(s, e) ==
    IF s = <<>> THEN <<e>>
    ELSE IF QLt(s[1][2], e[2]) THEN <<e>> \o s
    ELSE <<s[1]>> \o InsertByDepthDescending(Tail(s), e)

RECURSIVE SortFromDescending(_, _)
SortFromDescending(done, rest) ==
    IF rest = <<>> THEN done
    ELSE SortFromDescending(InsertByDepthDescending(done, rest[1]), Tail(rest))

SortedByDepth_Descending(bd) == SortFromDescending(<<>>, bd)

\* the sort left out
SortedByDepth_Unsorted(bd) == bd

\* sorted(boxes_depths, key=itemgetter(1)): stable, ascending, comparing with <
SortedByDepth(bd) == SortFrom(<<>>, bd)

\* the shape of t[..., y:ymax, x:xmax] for a 2-d t (Python slices clip)
SliceShape(box, shape) ==
    LET H == shape[Len(shape) - 1]
        W == shape[Len(shape)]
    IN  <<Max2(0, Min2(box[4], H) - Min2(box[2], H)),
          Max2(0, Min2(box[3], W) - Min2(box[1], W))>>

\* a value of shape v can be assigned to a region of shape r when every
\* dimension of v is 1 or equal to the region's
Broadcastable(v, r) ==
    /\ v[1] = r[1] \/ v[1] = 1
    /\ v[2] = r[2] \/ v[2] = 1

\* the pixel of index ix (its last two positions are row and column) lies in
\* rows y..ymax-1 and columns x..xmax-1
InBox(ix, box) ==
    LET r == ix[Len(ix) - 1]
        c == ix[Len(ix)]
    IN  /\ box[2] <= r /\ r < box[4]
        /\ box[1] <= c /\ c < box[3]

\* depth_layout[..., x:xmax, y:ymax] = patch: rows and columns exchanged
PaintRegion_Transposed(canvas, box, d) ==
    [shape |-> canvas.shape,
     at |-> [ix \in Indices(canvas.shape) |->
               IF InBox(ix, <<box[2], box[1], box[4], box[3]>>)
               THEN d ELSE canvas.at[ix]]]

\* depth_layout[..., y:ymax, x:xmax] = patch, the patch holding d everywhere
PaintRegion(canvas, box, d) ==
    [shape |-> canvas.shape,
     at |-> [ix \in Indices(canvas.shape) |->
               IF InBox(ix, box) THEN d ELSE canvas.at[ix]]]

---------------------------------------------------------------------------
\* The compositing loop as a whole, and utils.depth.get_depth_layout.

\* for i, d in boxes_depths: paint crops[i].shape copies of d into the region
\* of coord_boxes[i]; NoTensor when an assignment raises
RECURSIVE PaintAll(_, _, _, _)
PaintAll(canvas, bd, cboxes, crs) ==
    IF bd = <<>> THEN canvas
    ELSE LET i == bd[1][1]
         IN  IF Broadcastable(crs[i].shape, SliceShape(cboxes[i], canvas.shape))
             THEN PaintAll(PaintRegion(canvas, cboxes[i], bd[1][2]), Tail(bd),
                           cboxes, crs)
             ELSE NoTensor

\* lines 119-133 for the depths ds: enumerate, sort, zeros, paint
ComposeLayout(ds, shape, cboxes, crs) ==
    PaintAll(Zeros(shape), SortedByDepth(Enumerate(ds)), cboxes, crs)

\* paint each box region with the object's scalar, in the order bd
RECURSIVE FillAll(_, _, _)
FillAll(canvas, bd, cboxes) ==
    IF bd = <<>> THEN canvas
    ELSE FillAll(PaintRegion(canvas, cboxes[bd[1][1]], bd[1][2]), Tail(bd), cboxes)

\* the (i, d) of s whose box has an area
RECURSIVE WithArea(_, _)
WithArea(s, cboxes) ==
    IF s = <<>> THEN <<>>
    ELSE LET b == cboxes[s[1][1]]
             rest == WithArea(Tail(s), cboxes)
         IN  IF b[3] > b[1] /\ b[4] > b[2] THEN <<s[1]>> \o rest ELSE rest

\* get_depth_layout(depths, depthmap, bbox): a canvas of the depth map's
\* shape, the boxes with an area painted back to front
get_depth_layout(ds, map, bbox) ==
    LET hw == <<map.shape[Len(map.shape) - 1], map.shape[Len(map.shape)]>>
        cboxes == scale_boxes(bbox, hw, "coordinates")
    IN  FillAll(Zeros(map.shape),
                SortedByDepth(WithArea(Enumerate(ds), cboxes)), cboxes)

---------------------------------------------------------------------------
\* The state before a program has run.

\* no name is bound yet
Start ==
    /\ pc = "start"
    /\ err = "none"
    /\ config = <<>>
    /\ data = <<>>
    /\ index = 0
    /\ sample = NoSample
    /\ loaded = NoTensor
    /\ depthmap = NoTensor
    /\ size_boxes = <<>>
    /\ coord_boxes = <<>>
    /\ crops = <<>>
    /\ raw_depths = <<>>
    /\ depths = <<>>
    /\ boxes_depths = <<>>
    /\ depth_layout = NoTensor
    /\ painted = <<>>
    /\ depth_results = <<>>
    /\ image = NoTensor
    /\ o_image = NoTensor
    /\ prediction = NoTensor
    /\ written = <<>>
    /\ lpips_samples = 0
    /\ fake_images = NoImage
    /\ fake_images_alt = NoImage
    /\ saved = <<>>
    /\ env = <<>>

Init ==
    /\ prog \in {"compute_depth", "train_depth"}
    /\ Start

\* the names a turn of the loop binds, as they are before a sample is fetched
ResetSample ==
    /\ loaded' = NoTensor
    /\ depthmap' = NoTensor
    /\ size_boxes' = <<>>
    /\ crops' = <<>>
    /\ raw_depths' = <<>>
    /\ depths' = <<>>
    /\ boxes_depths' = <<>>
    /\ depth_layout' = NoTensor
    /\ painted' = <<>>

---------------------------------------------------------------------------
\* compute_depth.py, __main__.

\* ds = 'coco'; mode = 'val'; limit = 1; dataset = get_dataset(...)
Configure ==
    /\ prog = "compute_depth" /\ pc = "start"
    /\ config' = [ds |-> "coco", mode |-> "val", limit |-> limit]
    /\ pc' = "fetch"
    /\ UNCHANGED <<prog, err, data, index, sample, loaded, depthmap,
                   size_boxes, coord_boxes, crops, raw_depths, depths,
                   boxes_depths, depth_layout, painted, depth_results>>
    /\ UNCHANGED <<estvars, testvars, dsvars>>

\* for index in range(limit): image, objs, boxes, filename, flip = dataset[index]
Fetch ==
    /\ prog = "compute_depth" /\ pc = "fetch" /\ index < config.limit
    /\ \E s \in Samples : sample' = s
    /\ ResetSample
    /\ coord_boxes' = <<>>
    /\ pc' = "load"
    /\ UNCHANGED <<prog, err, config, data, index, depth_results>>
    /\ UNCHANGED <<estvars, testvars, dsvars>>

\* the loop is over
Finish ==
    /\ prog = "compute_depth" /\ pc = "fetch" /\ index >= config.limit
    /\ pc' = "done"
    /\ UNCHANGED <<prog, err, config, data, index, sample, loaded, depthmap,
                   size_boxes, coord_boxes, crops, raw_depths, depths,
                   boxes_depths, depth_layout, painted, depth_results>>
    /\ UNCHANGED <<estvars, testvars, dsvars>>

\* depthmap = torch.from_numpy(np.load(Path(..., filename + '.npy')))
Load ==
    /\ prog = "compute_depth" /\ pc = "load"
    /\ \E m \in DepthMaps :
         LET r == NpLoad(sample.filename, m)
         IN  IF r.raised
             THEN /\ pc' = "raised"
                  /\ err' = "FileNotFoundError"
                  /\ UNCHANGED <<loaded, depthmap>>
             ELSE /\ pc' = "flip"
                  /\ loaded' = r.value
                  /\ depthmap' = r.value
                  /\ err' = err
    /\ UNCHANGED <<prog, config, data, index, sample, size_boxes, coord_boxes,
                   crops, raw_depths, depths, boxes_depths, depth_layout,
                   painted, depth_results>>
    /\ UNCHANGED <<estvars, testvars, dsvars>>

\* if flip: depthmap = torch.fliplr(depthmap)
Flip ==
    /\ prog = "compute_depth" /\ pc = "flip"
    /\ depthmap' = IF sample.flip THEN Fliplr(depthmap) ELSE depthmap
    /\ pc' = "scale"
    /\ UNCHANGED <<prog, err, config, data, index, sample, loaded, size_boxes,
                   coord_boxes, crops, raw_depths, depths, boxes_depths,
                   depth_layout, painted, depth_results>>
    /\ UNCHANGED <<estvars, testvars, dsvars>>

\* size_boxes = scale_boxes(boxes, image.shape[-2:], 'inverse_size', ...)
\* coord_boxes = scale_boxes(boxes, image.shape[-2:], 'coordinates', ...)
Scale ==
    /\ prog = "compute_depth" /\ pc = "scale"
    /\ size_boxes' = scale_boxes(sample.boxes, <<ImgH, ImgW>>, "inverse_size")
    /\ coord_boxes' = scale_boxes(sample.boxes, <<ImgH, ImgW>>, "coordinates")
    /\ pc' = "crop"
    /\ UNCHANGED <<prog, err, config, data, index, sample, loaded, depthmap,
                   crops, raw_depths, depths, boxes_depths, depth_layout,
                   painted, depth_results>>
    /\ UNCHANGED <<estvars, testvars, dsvars>>

\* crop(depthmap, *(box.tolist())): the four numbers of the box are passed,
\* in their order, as top, left, height, width
CropBox(map, box) == Crop(map, box[1], box[2], box[3], box[4])

\* crops = [crop(depthmap, *(box.tolist())) for box in size_boxes]
CropAll ==
    /\ prog = "compute_depth" /\ pc = "crop"
    /\ crops' = [i \in DOMAIN size_boxes |-> CropBox(depthmap, size_boxes[i])]
    /\ pc' = "mean"
    /\ UNCHANGED <<prog, err, config, data, index, sample, loaded, depthmap,
                   size_boxes, coord_boxes, raw_depths, depths, boxes_depths,
                   depth_layout, painted, depth_results>>
    /\ UNCHANGED <<estvars, testvars, dsvars>>

\* depths = torch.tensor([crop_.mean() for crop_ in crops])
MeanAll ==
    /\ prog = "compute_depth" /\ pc = "mean"
    /\ raw_depths' = [i \in DOMAIN crops |-> Mean(crops[i])]
    /\ depths' = [i \in DOMAIN crops |-> Mean(crops[i])]
    /\ pc' = "normalize"
    /\ UNCHANGED <<prog, err, config, data, index, sample, loaded, depthmap,
                   size_boxes, coord_boxes, crops, boxes_depths,
                   depth_layout, painted, depth_results>>
    /\ UNCHANGED <<estvars, testvars, dsvars>>

\* depths = normalize_tensor(depths, (0, 1))
Normalize ==
    /\ prog = "compute_depth" /\ pc = "normalize"
    /\ depths' = normalize_tensor(depths)
    /\ pc' = "sort"
    /\ UNCHANGED <<prog, err, config, data, index, sample, loaded, depthmap,
                   size_boxes, coord_boxes, crops, raw_depths, boxes_depths,
                   depth_layout, painted, depth_results>>
    /\ UNCHANGED <<estvars, testvars, dsvars>>

\* boxes_depths = [(i, d) for i, d in enumerate(depths)]
\* boxes_depths = sorted(boxes_depths, key=itemgetter(1))
\* depth_layout = torch.zeros(depthmap.shape)
Sort ==
    /\ prog = "compute_depth" /\ pc = "sort"
    /\ boxes_depths' = SortedByDepth(Enumerate(depths))
    /\ depth_layout' = Zeros(depthmap.shape)
    /\ pc' = "paint"
    /\ UNCHANGED <<prog, err, config, data, index, sample, loaded, depthmap,
                   size_boxes, coord_boxes, crops, raw_depths, depths,
                   painted, depth_results>>
    /\ UNCHANGED <<estvars, testvars, dsvars>>

\* one turn of: for i, d in boxes_depths:
\*     patch = d.clone().repeat(crops[i].shape)
\*     x, y, xmax, ymax = coord_boxes[i]
\*     depth_layout[..., y:ymax, x:xmax] = patch
\* the assignment raises when the patch cannot be broadcast to the region
Paint ==
    /\ prog = "compute_depth" /\ pc = "paint"
    /\ Len(painted) < Len(boxes_depths)
    /\ LET e == boxes_depths[Len(painted) + 1]
           i == e[1]
           d == e[2]
       IN  IF Broadcastable(crops[i].shape,
                            SliceShape(coord_boxes[i], depth_layout.shape))
           THEN /\ depth_layout' = PaintRegion(depth_layout, coord_boxes[i], d)
                /\ painted' = Append(painted, e)
                /\ UNCHANGED <<pc, err>>
           ELSE /\ pc' = "raised"
                /\ err' = "RuntimeError"
                /\ UNCHANGED <<depth_layout, painted>>
    /\ UNCHANGED <<prog, config, data, index, sample, loaded, depthmap,
                   size_boxes, coord_boxes, crops, raw_depths, depths,
                   boxes_depths, depth_results>>
    /\ UNCHANGED <<estvars, testvars, dsvars>>

\* the loop over boxes_depths is over
PaintDone ==
    /\ prog = "compute_depth" /\ pc = "paint"
    /\ Len(painted) = Len(boxes_depths)
    /\ pc' = "display"
    /\ UNCHANGED <<prog, err, config, data, index, sample, loaded, depthmap,
                   size_boxes, coord_boxes, crops, raw_depths, depths,
                   boxes_depths, depth_layout, painted, depth_results>>
    /\ UNCHANGED <<estvars, testvars, dsvars>>

\* display all (plt.show()), then the next index
Display ==
    /\ prog = "compute_depth" /\ pc = "display"
    /\ index' = index + 1
    /\ pc' = "fetch"
    /\ UNCHANGED <<prog, err, config, data, sample, loaded, depthmap,
                   size_boxes, coord_boxes, crops, raw_depths, depths,
                   boxes_depths, depth_layout, painted, depth_results>>
    /\ UNCHANGED <<estvars, testvars, dsvars>>

---------------------------------------------------------------------------
\* train_depth.py, main: the depth visualisation of one batch.

\* disp_depth = 6, at most batch_size; real_images, label, bbox, depths,
\* filenames, flips = data; depth_results = []
TrainConfigure ==
    /\ prog = "train_depth" /\ pc = "start"
    /\ config' = [disp_depth |-> DispDepth]
    /\ \E b \in Batches : data' = b
    /\ depth_results' = <<>>
    /\ pc' = "fetch"
    /\ UNCHANGED <<prog, err, index, sample, loaded, depthmap, size_boxes,
                   coord_boxes, crops, raw_depths, depths, boxes_depths,
                   depth_layout, painted>>
    /\ UNCHANGED <<estvars, testvars, dsvars>>

\* for jdx in range(disp_depth): coord_box = scale_boxes(bbox[jdx], ...);
\* ann_img = draw_bounding_boxes(ann_img, coord_box)
TrainFetch ==
    /\ prog = "train_depth" /\ pc = "fetch" /\ index < config.disp_depth
    /\ sample' = data[index + 1]
    /\ ResetSample
    /\ coord_boxes' = scale_boxes(data[index + 1].boxes, <<ImgH, ImgW>>,
                                  "coordinates")
    /\ pc' = "load"
    /\ UNCHANGED <<prog, err, config, data, index, depth_results>>
    /\ UNCHANGED <<estvars, testvars, dsvars>>

\* depthmap = torch.from_numpy(np.load(Path(train_data.depth_dir, ...)))
\* depthmap = resize_(depthmap.unsqueeze(0))
TrainLoad ==
    /\ prog = "train_depth" /\ pc = "load"
    /\ \E m \in DepthMaps :
         LET r == NpLoad(sample.filename, m)
         IN  IF r.raised
             THEN /\ pc' = "raised"
                  /\ err' = "FileNotFoundError"
                  /\ UNCHANGED <<loaded, depthmap>>
             ELSE /\ pc' = "flip"
                  /\ loaded' = Resize(Unsqueeze0(r.value), <<ImgH, ImgW>>)
                  /\ depthmap' = Resize(Unsqueeze0(r.value), <<ImgH, ImgW>>)
                  /\ err' = err
    /\ UNCHANGED <<prog, config, data, index, sample, size_boxes, coord_boxes,
                   crops, raw_depths, depths, boxes_depths, depth_layout,
                   painted, depth_results>>
    /\ UNCHANGED <<estvars, testvars, dsvars>>

\* if flips[jdx]: depthmap = torch.fliplr(depthmap)
TrainFlip ==
    /\ prog = "train_depth" /\ pc = "flip"
    /\ depthmap' = IF sample.flip THEN Fliplr(depthmap) ELSE depthmap
    /\ pc' = "layout"
    /\ UNCHANGED <<prog, err, config, data, index, sample, loaded, size_boxes,
                   coord_boxes, crops, raw_depths, depths, boxes_depths,
                   depth_layout, painted, depth_results>>
    /\ UNCHANGED <<estvars, testvars, dsvars>>

\* depth_layout = udpt.get_depth_layout(depths[jdx], depthmap, bbox[jdx])
\* depth_results.extend([ann_img, cat((depth_layout,) * 3, 0), fake_image])
TrainLayout ==
    /\ prog = "train_depth" /\ pc = "layout"
    /\ LET l == get_depth_layout(sample.depths, depthmap, sample.boxes)
       IN  /\ depth_layout' = l
           /\ depth_results' = depth_results \o
                  << <<"ann_img", index>>, Cat3(l), <<"fake_image", index>> >>
    /\ index' = index + 1
    /\ pc' = "fetch"
    /\ UNCHANGED <<prog, err, config, data, sample, loaded, depthmap,
                   size_boxes, coord_boxes, crops, raw_depths, depths,
                   boxes_depths, painted>>
    /\ UNCHANGED <<estvars, testvars, dsvars>>

\* depth_grid = make_grid(depth_results, nrow=3)
TrainFinish ==
    /\ prog = "train_depth" /\ pc = "fetch" /\ index >= config.disp_depth
    /\ pc' = "done"
    /\ UNCHANGED <<prog, err, config, data, index, sample, loaded, depthmap,
                   size_boxes, coord_boxes, crops, raw_depths, depths,
                   boxes_depths, depth_layout, painted, depth_results>>
    /\ UNCHANGED <<estvars, testvars, dsvars>>

---------------------------------------------------------------------------

Next ==
    \/ Configure
    \/ Fetch
    \/ Finish
    \/ Load
    \/ Flip
    \/ Scale
    \/ CropAll
    \/ MeanAll
    \/ Normalize
    \/ Sort
    \/ Paint
    \/ PaintDone
    \/ Display
    \/ TrainConfigure
    \/ TrainFetch
    \/ TrainLoad
    \/ TrainFlip
    \/ TrainLayout
    \/ TrainFinish

Spec == Init /\ [][Next]_vars

---------------------------------------------------------------------------
\* compute_depth.py, depth_estimation.

\* the files of the dataset, in the order of its indices
DatasetFiles == <<"a.jpg", "b.jpg", "c.jpg", "z.jpg">>

\* the image file on disk, as cv2.imread and cvtColor return it
DiskImage(filename) ==
    [shape |-> <<ImgH, ImgW>>,
     at |-> [ix \in Indices(<<ImgH, ImgW>>) |->
               (FileNo(filename) + ix[1] + 2 * ix[2]) % (MaxDepthVal + 1)]]

\* dataset[index] with left_right_flip=True: the image is mirrored when the
\* flip flag is set
DatasetImage(filename, flip) ==
    IF flip THEN Fliplr(DiskImage(filename)) ELSE DiskImage(filename)

\* model(transform(image)): the estimated depth of every pixel of the image
Midas(img) ==
    [shape |-> img.shape,
     at |-> [ix \in Indices(img.shape) |-> MaxDepthVal - img.at[ix]]]

\* torch.nn.functional.interpolate(t, size=size).squeeze(), sampling the
\* source pixel of every target pixel
Interpolate(t, size) ==
    [shape |-> size,
     at |-> [ix \in Indices(size) |->
               t.at[<<(ix[1] * t.shape[1]) \div size[1],
                      (ix[2] * t.shape[2]) \div size[2]>>]]]

\* a guard that lets every sample through
NotFlip_Always(flip) == TRUE

\* if not flip:
NotFlip(flip) == ~flip

\* def depth_estimation(ds, mode, visualize=True, save=False, limit=None):
\* dataset = get_dataset(...); if limit is None: limit = len(dataset)
EstimationStart ==
    /\ prog = "depth_estimation" /\ pc = "start"
    /\ \E mode \in {"train", "val"}, visualize \in BOOLEAN, save \in BOOLEAN,
          given \in BOOLEAN, l \in 0 .. Len(DatasetFiles) :
         config' = [ds |-> "coco", mode |-> mode, visualize |-> visualize,
                    save |-> save,
                    limit |-> IF given THEN l ELSE Len(DatasetFiles)]
    /\ pc' = "fetch"
    /\ UNCHANGED <<prog, err, index, sample, layoutvars, estvars, testvars,
                   dsvars>>

\* for index in range(limit): image, _, _, filename, flip = dataset[index]
\* o_image = torch.clone(image)
EstimationFetch ==
    /\ prog = "depth_estimation" /\ pc = "fetch" /\ index < config.limit
    /\ \E flip \in BOOLEAN :
         /\ sample' = TrainSample(DatasetFiles[index + 1], flip)
         /\ image' = DatasetImage(DatasetFiles[index + 1], flip)
         /\ o_image' = DatasetImage(DatasetFiles[index + 1], flip)
    /\ pc' = "branch"
    /\ UNCHANGED <<prog, err, config, index, prediction, written, layoutvars,
                   testvars, dsvars>>

\* if not flip: image = cv2.imread(str(Path(dataset.image_dir, filename)));
\* image = cv2.cvtColor(image, cv2.COLOR_BGR2RGB); image = transform(image)
ReadImage ==
    /\ prog = "depth_estimation" /\ pc = "branch" /\ NotFlip(sample.flip)
    /\ image' = DiskImage(sample.filename)
    /\ pc' = "predict"
    /\ UNCHANGED <<prog, err, config, index, sample, o_image, prediction,
                   written, layoutvars, testvars, dsvars>>

\* the body of `if not flip:` is skipped, then the next index
SkipFlipped ==
    /\ prog = "depth_estimation" /\ pc = "branch" /\ ~NotFlip(sample.flip)
    /\ index' = index + 1
    /\ pc' = "fetch"
    /\ UNCHANGED <<prog, err, config, sample, layoutvars, estvars, testvars,
                   dsvars>>

\* predicted_depth = model(image)
\* prediction = interpolate(predicted_depth.unsqueeze(1),
\*                          size=o_image.shape[-2:], ...).squeeze()
Predict ==
    /\ prog = "depth_estimation" /\ pc = "predict"
    /\ prediction' = Interpolate(Midas(image), o_image.shape)
    /\ pc' = "visualize"
    /\ UNCHANGED <<prog, err, config, index, sample, image, o_image, written,
                   layoutvars, testvars, dsvars>>

\* if visualize: imshow(o_image), imshow(prediction), plt.show()
Visualize ==
    /\ prog = "depth_estimation" /\ pc = "visualize"
    /\ pc' = "save"
    /\ UNCHANGED <<prog, err, config, index, sample, layoutvars, estvars,
                   testvars, dsvars>>

\* if save: np.save(Path(save_path, filename + '.npy'), prediction)
\* then the next index
Save ==
    /\ prog = "depth_estimation" /\ pc = "save"
    /\ written' = IF config.save
                  THEN (sample.filename :> prediction) @@ written
                  ELSE written
    /\ index' = index + 1
    /\ pc' = "fetch"
    /\ UNCHANGED <<prog, err, config, sample, image, o_image, prediction,
                   layoutvars, testvars, dsvars>>

\* the loop is over
EstimationDone ==
    /\ prog = "depth_estimation" /\ pc = "fetch" /\ index >= config.limit
    /\ pc' = "done"
    /\ UNCHANGED <<prog, err, config, index, sample, layoutvars, estvars,
                   testvars, dsvars>>

InitEstimation ==
    /\ prog = "depth_estimation"
    /\ Start

NextEstimation ==
    \/ EstimationStart
    \/ EstimationFetch
    \/ ReadImage
    \/ SkipFlipped
    \/ Predict
    \/ Visualize
    \/ Save
    \/ EstimationDone

SpecEstimation == InitEstimation /\ [][NextEstimation]_vars

---------------------------------------------------------------------------
\* test.py, sample_test.

\* the largest initial lpips_samples and the largest dataset of the model
MaxLpips == 3
MaxLen == 3

\* lpips_samples left as it is
Decremented_Not(l) == l

\* lpips_samples -= 1
Decremented(l) == l - 1

\* if lpips_samples >= 0:
WantAlt(l) == l >= 0

\* def sample_test(netG, dataset, num_obj, sample_path, lpips_samples=100):
\* dataloader = DataLoader(dataset, batch_size=1, drop_last=True,
\*                         shuffle=False); alt_path = Path(sample_path, 'alt')
SampleTestStart ==
    /\ prog = "sample_test" /\ pc = "start"
    /\ \E n \in 0 .. MaxLpips, len \in 0 .. MaxLen, return_depth \in BOOLEAN :
         /\ config' = [lpips_samples |-> n, len |-> len,
                       return_depth |-> return_depth]
         /\ lpips_samples' = n
    /\ pc' = "generate"
    /\ UNCHANGED <<prog, err, index, sample, fake_images, fake_images_alt,
                   saved, layoutvars, estvars, dsvars>>

\* for idx, data in enumerate(dataloader):
\*     fake_images = netG.forward(z_obj, bbox, z_im, ...)
\*     if lpips_samples >= 0:
\*         fake_images_alt = netG.forward(z_obj_alt, bbox, z_im_alt, ...)
\*         lpips_samples -= 1
Generate ==
    /\ prog = "sample_test" /\ pc = "generate" /\ index < config.len
    /\ fake_images' = [layout |-> index, z |-> "z"]
    /\ IF WantAlt(lpips_samples)
       THEN /\ fake_images_alt' = [layout |-> index, z |-> "z_alt"]
            /\ lpips_samples' = Decremented(lpips_samples)
       ELSE UNCHANGED <<fake_images_alt, lpips_samples>>
    /\ pc' = "save"
    /\ UNCHANGED <<prog, err, config, index, sample, saved, layoutvars,
                   estvars, dsvars>>

\* imsave("{save_path}/sample_{idx}.jpg".format(save_path=sample_path, ...))
SaveSample ==
    /\ prog = "sample_test" /\ pc = "save"
    /\ saved' = (<<"sample_path", index>> :> fake_images) @@ saved
    /\ pc' = "save_alt"
    /\ UNCHANGED <<prog, err, config, index, sample, lpips_samples,
                   fake_images, fake_images_alt, layoutvars, estvars, dsvars>>

\* if lpips_samples >= 0:
\*     imsave("{save_path}/sample_{idx}.jpg".format(save_path=alt_path, ...),
\*            result_alt)
\* then the next idx; reading fake_images_alt before it is bound raises
SaveAlt ==
    /\ prog = "sample_test" /\ pc = "save_alt"
    /\ IF WantAlt(lpips_samples) /\ fake_images_alt = NoImage
       THEN /\ pc' = "raised"
            /\ err' = "UnboundLocalError"
            /\ UNCHANGED <<saved, index>>
       ELSE /\ saved' = IF WantAlt(lpips_samples)
                        THEN (<<"alt_path", index>> :> fake_images_alt) @@ saved
                        ELSE saved
            /\ index' = index + 1
            /\ pc' = "generate"
            /\ err' = err
    /\ UNCHANGED <<prog, config, sample, lpips_samples, fake_images,
                   fake_images_alt, layoutvars, estvars, dsvars>>

\* the dataloader is exhausted
SampleTestDone ==
    /\ prog = "sample_test" /\ pc = "generate" /\ index >= config.len
    /\ pc' = "done"
    /\ UNCHANGED <<prog, err, config, index, sample, layoutvars, estvars,
                   testvars, dsvars>>

InitSampleTest ==
    /\ prog = "sample_test"
    /\ Start

NextSampleTest ==
    \/ SampleTestStart
    \/ Generate
    \/ SaveSample
    \/ SaveAlt
    \/ SampleTestDone

SpecSampleTest == InitSampleTest /\ [][NextSampleTest]_vars

---------------------------------------------------------------------------
\* data/datasets.py, get_dataset.  None is "None" for a mode, NoPath for a
\* path and NoNumObj for a number; a path is the tuple of its parts and a
\* concatenated string the tuple of its pieces.

Datasets == {"coco", "vg", "clevr"}
Modes == {"None", "train", "val", "test"}
NoPath == <<>>
NoNumObj == 0

\* get_num_classes_and_objects(dataset)[1]
NumObjects(dataset) ==
    CASE dataset = "coco" -> 8 [] dataset = "vg" -> 31 [] OTHER -> 10

\* name = value in the function's scope
Bind(e, name, value) == (name :> value) @@ e

\* get_dataset(dataset, img_size, mode=None, depth_dir=None, num_obj=None,
\*             return_filenames=False, return_depth=False)
GetDatasetCall ==
    /\ prog = "get_dataset" /\ pc = "start"
    /\ \E dataset \in Datasets, mode \in Modes,
          depth_dir \in {NoPath, <<"depth">>}, default_num \in BOOLEAN,
          return_filenames \in BOOLEAN, return_depth \in BOOLEAN :
         env' = [dataset |-> dataset, mode |-> mode, depth_dir |-> depth_dir,
                 num_obj |-> IF default_num THEN NoNumObj
                             ELSE NumObjects(dataset),
                 return_filenames |-> return_filenames,
                 return_depth |-> return_depth]
    /\ pc' = "depth_dir"
    /\ UNCHANGED <<prog, err, config, index, sample, layoutvars, estvars,
                   testvars>>

\* if depth_dir is None: depth_dir = Path('datasets', dataset + '-depth', mode)
\* Path raises TypeError for a part that is None
DefaultDepthDir ==
    /\ prog = "get_dataset" /\ pc = "depth_dir"
    /\ IF env.depth_dir = NoPath /\ env.mode = "None"
       THEN /\ pc' = "raised"
            /\ err' = "TypeError"
            /\ env' = env
       ELSE /\ env' = IF env.depth_dir = NoPath
                      THEN [env EXCEPT !.depth_dir =
                               <<"datasets", env.dataset, "-depth", env.mode>>]
                      ELSE env
            /\ pc' = "mode"
            /\ err' = err
    /\ UNCHANGED <<prog, config, index, sample, layoutvars, estvars, testvars>>

\* if mode is None or mode == 'train': coco_image_dir = ...; ...
\* elif mode == 'val': coco_image_dir = ...; ...
ModePaths ==
    /\ prog = "get_dataset" /\ pc = "mode"
    /\ env' =
         IF env.mode = "None" \/ env.mode = "train"
         THEN Bind(Bind(Bind(Bind(Bind(env,
                  "coco_image_dir", "./datasets/coco/images/train2017/"),
                  "coco_instances_json",
                  "./datasets/coco/annotations/instances_train2017.json"),
                  "coco_stuff_json",
                  "./datasets/coco/annotations/stuff_train2017.json"),
                  "vg_h5_path", "./datasets/vg/train.h5"),
                  "vg_image_dir", "./datasets/vg/images/")
         ELSE IF env.mode = "val"
         THEN Bind(Bind(Bind(Bind(Bind(env,
                  "coco_image_dir", "./datasets/coco/images/val2017/"),
                  "coco_instances_json",
                  "./datasets/coco/annotations/instances_val2017.json"),
                  "coco_stuff_json",
                  "./datasets/coco/annotations/stuff_val2017.json"),
                  "vg_h5_path", "./datasets/vg/val.h5"),
                  "vg_image_dir", "./datasets/vg/images/")
         ELSE env
    /\ pc' = "clevr"
    /\ UNCHANGED <<prog, err, config, index, sample, layoutvars, estvars,
                   testvars>>

\* clevr_image_dir = './datasets/CLEVR_v1.0/images/' + mode
\* clevr_scenes_json = './datasets/CLEVR_v1.0/scenes/' + f'CLEVR_{mode}_scenes.json'
\* str + None raises TypeError
\* if depth_dir is None: ... (depth_dir is set by now)
ClevrPaths ==
    /\ prog = "get_dataset" /\ pc = "clevr"
    /\ IF env.mode = "None"
       THEN /\ pc' = "raised"
            /\ err' = "TypeError"
            /\ env' = env
       ELSE /\ env' = Bind(Bind(env,
                   "clevr_image_dir",
                   <<"./datasets/CLEVR_v1.0/images/", env.mode>>),
                   "clevr_scenes_json",
                   <<"./datasets/CLEVR_v1.0/scenes/", "CLEVR_", env.mode,
                     "_scenes.json">>)
            /\ pc' = "build"
            /\ err' = err
    /\ UNCHANGED <<prog, config, index, sample, layoutvars, estvars, testvars>>

\* the names the branch of the dataset reads
Reads(dataset) ==
    CASE dataset = "coco" ->
           {"coco_image_dir", "coco_instances_json", "coco_stuff_json"}
      [] dataset = "vg" -> {"vg_h5_path", "vg_image_dir"}
      [] OTHER -> {"clevr_image_dir", "clevr_scenes_json"}

\* if dataset == "coco": data = CocoSceneGraphDataset(...)
\* elif dataset == 'vg': if num_obj is None: num_obj = 31;
\*                       data = VgSceneGraphDataset(...)
\* elif dataset == 'clevr': data = CLEVRDataset(...)
\* reading a local name that is not bound raises UnboundLocalError
BuildDataset ==
    /\ prog = "get_dataset" /\ pc = "build"
    /\ IF ~(Reads(env.dataset) \subseteq DOMAIN env)
       THEN /\ pc' = "raised"
            /\ err' = "UnboundLocalError"
            /\ env' = env
       ELSE /\ env' =
                 IF env.dataset = "coco"
                 THEN Bind(env, "data",
                          [class |-> "CocoSceneGraphDataset",
                           image_dir |-> env.coco_image_dir,
                           instances_json |-> env.coco_instances_json,
                           stuff_json |-> env.coco_stuff_json,
                           depth_dir |-> env.depth_dir,
                           return_filenames |-> env.return_filenames,
                           return_depth |-> env.return_depth])
                 ELSE IF env.dataset = "vg"
                 THEN LET num_obj == IF env.num_obj = NoNumObj
                                     THEN NumObjects("vg") ELSE env.num_obj
                      IN  Bind([env EXCEPT !.num_obj = num_obj], "data",
                              [class |-> "VgSceneGraphDataset",
                               h5_path |-> env.vg_h5_path,
                               image_dir |-> env.vg_image_dir,
                               max_objects |-> num_obj - 1])
                 ELSE Bind(env, "data",
                          [class |-> "CLEVRDataset",
                           image_dir |-> env.clevr_image_dir,
                           scenes_json |-> env.clevr_scenes_json,
                           return_depth |-> env.return_depth])
            /\ pc' = "return"
            /\ err' = err
    /\ UNCHANGED <<prog, config, index, sample, layoutvars, estvars, testvars>>

\* return data
ReturnData ==
    /\ prog = "get_dataset" /\ pc = "return"
    /\ IF "data" \in DOMAIN env
       THEN pc' = "returned" /\ err' = err
       ELSE pc' = "raised" /\ err' = "UnboundLocalError"
    /\ UNCHANGED <<prog, config, index, sample, layoutvars, estvars, testvars,
                   dsvars>>

InitGetDataset ==
    /\ prog = "get_dataset"
    /\ Start

NextGetDataset ==
    \/ GetDatasetCall
    \/ DefaultDepthDir
    \/ ModePaths
    \/ ClevrPaths
    \/ BuildDataset
    \/ ReturnData

SpecGetDataset == InitGetDataset /\ [][NextGetDataset]_vars

---------------------------------------------------------------------------
\* Properties.

\* compute_depth.py has finished the compositing loop of a sample
Composited == prog = "compute_depth" /\ pc = "display"

\* the positions of the paint order whose coordinate-form box covers pixel ix
Covering(ix) ==
    { k \in DOMAIN boxes_depths : InBox(ix, coord_boxes[boxes_depths[k][1]]) }

MaxOf(S) == CHOOSE m \in S : \A x \in S : x <= m

\* C1: after the compositing loop, a pixel no coordinate-form box covers is 0,
\* and a covered pixel holds the normalized depth of the covering object that
\* is last in the paint order.
C1_LastPaintedWins ==
    Composited =>
        \A ix \in Indices(depth_layout.shape) :
            IF Covering(ix) = {}
            THEN depth_layout.at[ix] = Zero
            ELSE depth_layout.at[ix] =
                     depths[boxes_depths[MaxOf(Covering(ix))][1]]

\* two boxes of different depth overlap, and the overlap holds the larger depth
C1_Witness ==
    /\ Composited
    /\ \E ix \in Indices(depth_layout.shape) :
         \E j, k \in DOMAIN depths :
             /\ InBox(ix, coord_boxes[j]) /\ InBox(ix, coord_boxes[k])
             /\ QLt(depths[j], depths[k])
             /\ depth_layout.at[ix] = depths[k]
             /\ depth_layout.at[ix] # depths[j]

\* C2: the objects are painted in the order of their normalized depth,
\* ascending, objects of equal depth in the order of their index: from one
\* paint step to the next the depth never decreases.
C2_PaintOrderAscendingStable ==
    prog = "compute_depth" =>
        /\ \A j, k \in DOMAIN painted :
             j < k =>
                 /\ ~QLt(painted[k][2], painted[j][2])
                 /\ ~QLt(painted[j][2], painted[k][2])
                        => painted[j][1] < painted[k][1]
        /\ painted = SubSeq(boxes_depths, 1, Len(painted))
        /\ pc \in {"paint", "display"} =>
             /\ Len(boxes_depths) = Len(depths)
             /\ \A i \in DOMAIN depths :
                  \E k \in DOMAIN boxes_depths : boxes_depths[k] = <<i, depths[i]>>

\* two objects were painted, the one of the larger index first because its
\* depth is the smaller
C2_Witness ==
    /\ prog = "compute_depth"
    /\ Len(painted) >= 2
    /\ painted[1][1] > painted[2][1]
    /\ QLt(painted[1][2], painted[2][2])

Permuted(s, p) == [i \in DOMAIN s |-> s[p[i]]]

\* C3: the compositor gives the same canvas for every permutation of its
\* input objects (their depths, boxes and crops).
C3_OrderIndependent ==
    Composited =>
        \A p \in Permutations(DOMAIN depths) :
            ComposeLayout(Permuted(depths, p), depthmap.shape,
                          Permuted(coord_boxes, p), Permuted(crops, p))
                = depth_layout

\* two overlapping objects are given with the deeper one first, so that the
\* paint order is not the input order
C3_Witness ==
    /\ Composited
    /\ \E ix \in Indices(depth_layout.shape) :
         \E j, k \in DOMAIN depths :
             /\ j < k
             /\ InBox(ix, coord_boxes[j]) /\ InBox(ix, coord_boxes[k])
             /\ QLt(depths[k], depths[j])

\* the mean of map over the pixels of a coordinate-form box
BoxMean(map, box) ==
    LET S == { ix \in Indices(map.shape) : InBox(ix, box) }
    IN  Q(SumOver(map.at, S), Cardinality(S))

\* C4: the crop of a size-form box (x, y, width, height) is rows y..y+height-1
\* and columns x..x+width-1 of the flipped depth map, the rectangle the
\* coordinate-form box addresses, and the depth scalar is its mean (stated
\* for the boxes that lie inside the image and have an area).
C4_CropIsBoxRegion ==
    (prog = "compute_depth" /\ pc = "normalize") =>
        \A i \in DOMAIN size_boxes :
            LET b == size_boxes[i]
            IN  (b[3] > 0 /\ b[4] > 0 /\ b[1] + b[3] <= ImgW /\ b[2] + b[4] <= ImgH)
                    => /\ crops[i].shape = <<b[4], b[3]>>
                       /\ raw_depths[i] = BoxMean(depthmap, coord_boxes[i])

\* slot i holds a box of zero width or zero height
Degenerate(i) == size_boxes[i][3] = 0 \/ size_boxes[i][4] = 0

RECURSIVE Ascending(_)
Ascending(S) ==
    IF S = {} THEN <<>>
    ELSE LET m == CHOOSE x \in S : \A y \in S : x <= y
         IN  <<m>> \o Ascending(S \ {m})

\* the normalized depth slot j has when only the slots of S are aggregated
DepthAmong(S, j) ==
    LET order == Ascending(S)
        norm == normalize_tensor([k \in DOMAIN order |-> raw_depths[order[k]]])
    IN  norm[Cardinality({ m \in S : m <= j })]

\* C5: an object with a box of zero width or height is skipped: painting it
\* never raises, it paints no pixel, and the other objects have the depth
\* scalars they have without it.
C5_DegenerateBoxSkipped ==
    (prog = "compute_depth" /\ pc \in {"sort", "paint", "display", "raised"}
        /\ depths # <<>>) =>
        LET others == { j \in DOMAIN size_boxes : ~Degenerate(j) }
        IN  \A i \in DOMAIN size_boxes :
                Degenerate(i) =>
                    /\ err = "RuntimeError"
                           => boxes_depths[Len(painted) + 1][1] # i
                    /\ \A ix \in Indices(depthmap.shape) :
                           ~InBox(ix, coord_boxes[i])
                    /\ \A j \in others : depths[j] = DepthAmong(others, j)

\* the number of slots of the sample that hold an object
NumValid ==
    Cardinality({ i \in DOMAIN sample.objs : sample.objs[i] # Background })

\* C6: padding entries take no part: no crop and no mean is computed for
\* them, they are not normalized and they are never painted.
C6_PaddingExcluded ==
    prog = "compute_depth" =>
        /\ Len(crops) <= NumValid
        /\ Len(depths) <= NumValid
        /\ \A k \in DOMAIN painted :
               sample.objs[painted[k][1]] # Background

\* C7: for an image without valid objects the compositor ends without an
\* error and the canvas is zero at every pixel.
C7_NoObjectsZeroCanvas ==
    (prog = "compute_depth" /\ sample # NoSample /\ NumValid = 0) =>
        /\ err # "RuntimeError"
        /\ pc = "display" => depth_layout = Zeros(depthmap.shape)

\* t mirrored left-right: the last (column) axis reversed, rows in place
MirrorColumns(t) ==
    [shape |-> t.shape,
     at |-> [ix \in Indices(t.shape) |->
               t.at[[ix EXCEPT ![Len(ix)] = t.shape[Len(ix)] - 1 - ix[Len(ix)]]]]]

\* C8: in both programs the depth map is oriented before it is cropped or
\* composited, and the oriented map is the loaded one mirrored left-right
\* when the sample's flip flag is set and the loaded one otherwise.
C8_FlipBeforeUse ==
    /\ pc \in {"load", "flip"} => crops = <<>> /\ depth_layout = NoTensor
    /\ (depthmap # NoTensor /\ pc # "flip") =>
           depthmap = IF sample.flip THEN MirrorColumns(loaded) ELSE loaded

\* C9: when there is no cached depth map for the sample's file the program
\* ends with the FileNotFoundError: no depth map stands in for the missing
\* one and no depth layout is made for the sample.
C9_MissingDepthMapPropagates ==
    (sample # NoSample /\ sample.filename \notin Cached /\ pc # "load") =>
        /\ pc = "raised" /\ err = "FileNotFoundError"
        /\ depthmap = NoTensor
        /\ crops = <<>>
        /\ depth_layout = NoTensor
        /\ Len(depth_results) = 3 * index

\* a sample without a cached depth map was fetched and the load raised
C9_Witness ==
    /\ sample # NoSample /\ sample.filename \notin Cached
    /\ pc = "raised" /\ err = "FileNotFoundError"

\* C10: the sort direction is a required configuration value: while it is
\* not set the program composites no sample.
C10_ConventionRequired ==
    (prog = "compute_depth" /\ "depth_convention" \notin DOMAIN config) =>
        /\ pc \notin {"sort", "paint", "display"}
        /\ painted = <<>>

\* sample j of the batch (1-based) has its depth layout among depth_results
TrainComposited(j) ==
    \E k \in DOMAIN depth_results : depth_results[k] = <<"ann_img", j - 1>>

\* C11: a sample that fails does not keep the other samples of the batch from
\* being composited: when the visualisation loop of train_depth.py has come
\* to its end, every sample of the batch that has a cached depth map has its
\* depth layout among the results.
C11_FailureIsolated ==
    (prog = "train_depth" /\ pc \in {"raised", "done"}) =>
        \A j \in 1 .. config.disp_depth :
            data[j].filename \in Cached => TrainComposited(j)

\* C12: for every object the patch (of the shape of its crop) has exactly
\* the shape of the canvas region its coordinate-form box selects, and the
\* assignment does not raise.
C12_PatchShapeIsRegionShape ==
    /\ err # "RuntimeError"
    /\ (prog = "compute_depth" /\ crops # <<>>) =>
           \A i \in DOMAIN crops :
               crops[i].shape = SliceShape(coord_boxes[i], <<ImgH, ImgW>>)

\* the depth map depth_estimation makes of an image
Estimate(img) == Interpolate(Midas(img), <<ImgH, ImgW>>)

AltSaved == { p[2] : p \in { q \in DOMAIN saved : q[1] = "alt_path" } }

\* C14: for every index the loop has finished the main image is saved, made
\* from that index's layout; the alternative image of index i is saved
\* exactly when i < N, N the initial lpips_samples; every saved alternative
\* was generated from the layout of its own index; at the end there are
\* min(N, dataset size) alternatives.
C14_AlternativesForFirstN ==
    (prog = "sample_test" /\ pc # "start") =>
        /\ \A i \in 0 .. index - 1 :
               /\ <<"sample_path", i>> \in DOMAIN saved
               /\ saved[<<"sample_path", i>>] = [layout |-> i, z |-> "z"]
               /\ i \in AltSaved <=> i < config.lpips_samples
        /\ \A p \in DOMAIN saved :
               /\ saved[p].layout = p[2]
               /\ p[1] = "alt_path" => saved[p].z = "z_alt"
        /\ err = "none"
        /\ pc = "done" =>
               /\ index = config.len
               /\ Cardinality(AltSaved) = Min2(config.lpips_samples, config.len)

\* a run with 0 < N < dataset size has ended: index 0 has an alternative and
\* the last index has none
C14_Witness ==
    /\ prog = "sample_test" /\ pc = "done"
    /\ 0 < config.lpips_samples /\ config.lpips_samples < config.len
    /\ 0 \in AltSaved
    /\ (config.len - 1) \notin AltSaved

\* C15: get_dataset returns a dataset for every mode it is called with: it
\* raises no exception, and what it returns is bound.
C15_DatasetForEveryMode ==
    prog = "get_dataset" =>
        /\ err = "none"
        /\ pc = "returned" => "data" \in DOMAIN env

====
